---- MODULE Spec2Model ----
(***************************************************************************)
(* Ingestion and citation expansion of the research-paper recommender:     *)
(* IngestionPipeline.run_pipeline (seed acquisition, backward pass          *)
(* process_cited_papers, forward pass process_citing_papers), the          *)
(* collaborators it calls, and the persistence stage that follows it.       *)
(*                                                                         *)
(* An arXiv identifier is a sequence of one-character strings, so that     *)
(* "2310.01234v2".split('v')[0] is computed rather than assumed: the paper  *)
(* "a" is <<"a">> and its first version is <<"a","v","1">>.  None and the   *)
(* empty string are the empty sequence.                                     *)
(***************************************************************************)
EXTENDS Integers, Sequences, FiniteSets, TLC

\* ---------------------------------------------------------------- bounds
MaxSeeds   == 2   \* papers returned by the seed search / feed
MaxCites   == 2   \* length of one citation list returned by the provider
MaxEnv     == 2   \* citation entries returned plus failures injected, per behaviour
MaxK       == 2   \* extension budget handed to the driver
MaxFail    == 1   \* candidates whose download / parsing does not succeed
MaxRuns    == 2   \* consecutive runs of the driver on one workflow object
MaxStored  == 1   \* papers in the relational store before the first run
MaxIdLen   == 3   \* characters of an identifier handed to split('v')[0]
MaxOutage  == 1   \* bulk existing-id queries that raise
MaxFiles   == 2   \* citation files handed to _extract_citations
MaxBibEntries == 5 \* entries of one bibliography file or environment

\* run_pipeline(..., max_extentions: int = 5)
DefaultMaxExtentions == 5

\* run_single(..., max_extensions: int = 1)
DefaultMaxExtensions == 1

Range(s) == {s[i] : i \in 1..Len(s)}

\* the papers of the catalogue, and those the providers mention when the
\* model is free to choose their answers (seeds are a prefix of BaseOrder)
Bases     == {"a", "b", "c", "d"}
BaseOrder == <<"a", "b", "c">>
Mentioned == Range(BaseOrder)
Titles    == Bases          \* the title of paper b is written b

Bare(b)        == <<b>>
WithVersion(b) == <<b, "v", "1">>
Ids            == {Bare(b) : b \in Bases} \cup {WithVersion(b) : b \in Bases}
None           == <<>>

VARIABLES
  \* --- driver input (ProcessingWorkflow.run_single arguments)
  query,            \* TRUE: a query string is given, FALSE: latest-papers feed
  max_extensions,   \* the max_extensions argument of run_single
  runsLeft,         \* runs still to be started on this workflow object
  \* --- external collaborators (answers are fixed once given)
  feed,             \* arXiv search / RSS feed answer
  refs,             \* Semantic Scholar "references" per paper
  cits,             \* Semantic Scholar "citations" per paper
  search,           \* arXiv title search answer per title
  outcome,          \* what download / extraction / metadata / parsing yield per id
  llm,              \* what the LLM answers to the three prompts, per paper
  store,            \* rows of the relational "papers" table
  \* --- IngestionPipeline fields
  paper_ids, final_tex_files, papers, citation_link,
  cited_paper_ids, citing_paper_ids,
  \* --- locals of the pass in progress
  original_paper_ids, extension, saved_papers, idx, budget,
  \* --- file system and output file
  tempDirs, outFile,
  \* --- PaperTransformer.existing_paper_arxiv_ids
  existing_paper_arxiv_ids,
  \* --- control
  pc, phase, run,
  \* --- history of external calls
  log,
  \* --- a function called on its own: its arguments and what it returned
  args, result

driverVars == <<query, max_extensions, runsLeft>>
envVars    == <<feed, refs, cits, search, outcome, llm>>
fieldVars  == <<paper_ids, final_tex_files, papers, citation_link,
                cited_paper_ids, citing_paper_ids>>
localVars  == <<original_paper_ids, extension, saved_papers, idx, budget>>
unitVars   == <<args, result>>
vars == <<query, max_extensions, runsLeft, feed, refs, cits, search, outcome,
          llm, args, result, store, paper_ids, final_tex_files, papers, citation_link,
          cited_paper_ids, citing_paper_ids, original_paper_ids, extension,
          saved_papers, idx, budget, tempDirs, outFile,
          existing_paper_arxiv_ids, pc, phase, run, log>>

\* ------------------------------------------------------------- helpers
Min(x, y) == IF x <= y THEN x ELSE y

Max(x, y) == IF x >= y THEN x ELSE y

InSeq(x, s) == \E i \in 1..Len(s) : s[i] = x

RECURSIVE SeqFilter(_, _)
SeqFilter(s, S) ==
  IF s = <<>> THEN <<>>
  ELSE IF Head(s) \in S THEN <<Head(s)>> \o SeqFilter(Tail(s), S)
  ELSE SeqFilter(Tail(s), S)

\* dict[key] = value
Put(f, k, v) == [x \in DOMAIN f \cup {k} |-> IF x = k THEN v ELSE f[x]]

EmptyDict == [x \in {} |-> None]

\* the last character cut off, whatever it is
SplitV_chop(s) ==
  IF s = <<>> THEN <<>> ELSE SubSeq(s, 1, Len(s) - 1)

\* raw_id.split('v')[0]
RECURSIVE SplitV(_)
SplitV(s) ==
  IF s = <<>> \/ Head(s) = "v" THEN <<>>
  ELSE <<Head(s)>> \o SplitV(Tail(s))

\* key generated by the database for a new row of "papers"
Uuid(n) == <<"u", ToString(n)>>

Event(e, id, n, added) ==
  [ev |-> e, run |-> run, phase |-> phase, id |-> id, n |-> n, added |-> added]

\* ------------------------------------------------- external collaborators
\* SupabaseClient.get_existing_arxiv_ids
get_existing_arxiv_ids(rows) == {SplitV(r.paper_id) : r \in rows}

\* lists of distinct papers, at most n long
RECURSIVE DistinctSeqs(_, _)
DistinctSeqs(S, n) ==
  IF n = 0 THEN {<<>>}
  ELSE LET shorter == DistinctSeqs(S, n - 1)
       IN shorter \cup UNION {{Append(s, x) : x \in S \ Range(s)} :
                                s \in {t \in shorter : Len(t) = n - 1}}

\* SemanticScholarClient.extract_paper_info keeps the entries that carry an
\* arXiv id; the id of externalIds.ArXiv has no version suffix
Entry(b) == [arxivId |-> Bare(b), title |-> b]
EntryList(bs) == [i \in 1..Len(bs) |-> Entry(bs[i])]

\* what the collaborators do with one candidate: "neterror" the download
\* request raises, "nodownload" it answers a status other than 200, "nometa"
\* every attempt of the metadata request fails, "metaretry" only the last
\* attempt succeeds, "titlediff" the provider's title is not the arXiv title
Outcomes == {"ok", "neterror", "nodownload", "badtar", "notex", "nometa",
             "metaretry", "titlediff", "noabstract", "nosections"}

KnownLen(m) == IF m.known THEN Len(m.list) ELSE 0

RECURSIVE SumKnown(_)
SumKnown(S) ==
  IF S = {} THEN 0
  ELSE LET b == CHOOSE x \in S : TRUE
       IN KnownLen(refs[b]) + KnownLen(cits[b]) + SumKnown(S \ {b})

EntriesKnown == SumKnown(Bases)

BadOutcomes == Outcomes \ {"ok"}

Failures == Cardinality({i \in Ids : outcome[i] \in BadOutcomes})

\* the bulk existing-id queries that raised
Outages ==
  Cardinality({i \in 1..Len(log) : log[i].ev = "raised" /\ log[i].id = <<"gate">>})

\* what the environment has done so far that the bounds count
EnvUsed == EntriesKnown + Failures + Outages

\* the sink may fail to answer the query about to be made
SinkMayFail == Outages < MaxOutage /\ Failures + Outages < MaxEnv

\* the answers the provider may give for a list not asked before
CiteLists(memo) ==
  IF memo.known THEN {memo.list}
  ELSE {EntryList(bs) :
          bs \in DistinctSeqs(Mentioned, Max(0, Min(MaxCites, MaxEnv - EnvUsed)))}

SearchResults == {None} \cup {WithVersion(b) : b \in Mentioned}

\* outcomes for the ids of a list, keeping the answers already given
OutcomeChoices(ids) ==
  LET U    == {i \in Range(ids) : outcome[i] = "unknown"}
      room == Max(0, Min(MaxFail - Failures, MaxEnv - EnvUsed))
  IN UNION {{[i \in Ids |-> IF i \in F THEN g[i]
                            ELSE IF i \in U THEN "ok" ELSE outcome[i]] :
               g \in [F -> BadOutcomes]} :
            F \in {X \in SUBSET U : Cardinality(X) <= room}}

\* --------------------------------------------------- pipeline stages
\* IngestionPipeline.deduplicate_papers
deduplicate_papers(ids, rows) ==
  LET existing_ids == get_existing_arxiv_ids(rows)
  IN SeqFilter(ids, {pid \in Range(ids) : SplitV(pid) \notin existing_ids})

\* IngestionPipeline.download_and_extract with ArxivClient.download_paper,
\* FileProcessor.extract_tar and FileProcessor.cleanup
\* acc.calls: the ids download_paper was called with; acc.raised: the
\* request of the last call raised (requests.get is not guarded)
RECURSIVE download_and_extract(_, _, _)
download_and_extract(ids, o, acc) ==
  IF ids = <<>> \/ acc.raised THEN acc
  ELSE LET arxiv_id == Head(ids)
           downloaded == o[arxiv_id] # "nodownload"
           extracted  == arxiv_id \in acc.temps \/ o[arxiv_id] # "badtar"
           calls      == Append(acc.calls, arxiv_id)
       IN download_and_extract(Tail(ids), o,
            IF o[arxiv_id] = "neterror"
            THEN [acc EXCEPT !.calls = calls, !.raised = TRUE]
            ELSE IF downloaded /\ extracted
            THEN [valid_ids |-> Append(acc.valid_ids, arxiv_id),
                  temps |-> acc.temps \cup {arxiv_id},
                  calls |-> calls, raised |-> FALSE]
            ELSE [valid_ids |-> acc.valid_ids,
                  temps |-> acc.temps \ {arxiv_id},
                  calls |-> calls, raised |-> FALSE])

\* IngestionPipeline.organize_files with FileProcessor.organize_files
RECURSIVE organize_files(_, _, _)
organize_files(ids, o, acc) ==
  IF ids = <<>> THEN acc
  ELSE LET arxiv_id == Head(ids)
           tex_file_count == IF arxiv_id \in acc.temps /\ o[arxiv_id] # "notex"
                             THEN 1 ELSE 0
       IN organize_files(Tail(ids), o,
            [valid_ids |-> IF tex_file_count > 0
                           THEN Append(acc.valid_ids, arxiv_id) ELSE acc.valid_ids,
             files |-> IF tex_file_count > 0
                       THEN acc.files \cup {arxiv_id} ELSE acc.files,
             temps |-> acc.temps \ {arxiv_id}])

\* arxiv.Result.get_short_id: the id with the version the catalogue holds
get_short_id(arxiv_id) == SplitV(arxiv_id) \o <<"v", "1">>

\* retry_request(..., max_retries: int = 5, ...)
max_retries == 5

\* attempts of the provider's request for a paper that fail
RequestFails(o) ==
  CASE o = "nometa"    -> max_retries
    [] o = "metaretry" -> max_retries - 1
    [] OTHER           -> 0

\* SemanticScholarClient.retry_request: attempts 1..max_retries, the
\* exception of the last attempt raised again
RECURSIVE retry_request(_, _)
retry_request(fails, attempt) ==
  IF fails < attempt THEN [raised |-> FALSE, attempts |-> attempt]
  ELSE IF attempt < max_retries THEN retry_request(fails, attempt + 1)
  ELSE [raised |-> TRUE, attempts |-> attempt]

\* the title in the provider's answer for a paper
ProviderTitle(o, paper_title) == IF o = "titlediff" THEN "x" ELSE paper_title

\* the request's exception let through
get_paper_metadata_unguarded(o, paper_title) ==
  LET response == retry_request(RequestFails(o), 1)
  IN [raised |-> response.raised, empty |-> FALSE,
      authors |-> ~response.raised,
      title |-> ProviderTitle(o, paper_title), warning |-> FALSE,
      failed |-> IF response.raised THEN response.attempts
                 ELSE response.attempts - 1]

\* a title that differs treated as a failed request
get_paper_metadata_strict(o, paper_title) ==
  LET response == retry_request(RequestFails(o), 1)
      found    == ProviderTitle(o, paper_title)
  IN IF response.raised \/ found # paper_title
     THEN [raised |-> FALSE, empty |-> TRUE, authors |-> FALSE,
           title |-> paper_title, warning |-> found # paper_title,
           failed |-> max_retries]
     ELSE [raised |-> FALSE, empty |-> FALSE, authors |-> TRUE,
           title |-> found, warning |-> FALSE, failed |-> response.attempts - 1]

\* SemanticScholarClient.get_paper_metadata: {} when the request raised
\* (empty, the caller's title kept), else the provider's fields, with a
\* warning when the titles differ; failed: the attempts that failed
get_paper_metadata(o, paper_title) ==
  LET response == retry_request(RequestFails(o), 1)
      found    == ProviderTitle(o, paper_title)
  IN IF response.raised
     THEN [raised |-> FALSE, empty |-> TRUE, authors |-> FALSE,
           title |-> paper_title, warning |-> FALSE,
           failed |-> response.attempts]
     ELSE [raised |-> FALSE, empty |-> FALSE, authors |-> TRUE,
           title |-> found,
           warning |-> (paper_title # "" /\ found # paper_title),
           failed |-> response.attempts - 1]

\* IngestionPipeline.fetch_metadata; acc.events: the provider's requests and
\* the warnings logged, acc.raised: an exception left the loop
RECURSIVE fetch_metadata(_, _, _, _)
fetch_metadata(ids, o, files, acc) ==
  IF ids = <<>> \/ acc.raised THEN acc
  ELSE LET full_id == get_short_id(Head(ids))
           base_id == SplitV(full_id)
           result_title == Head(base_id)
           additional_data == get_paper_metadata(o[Head(ids)], result_title)
           paper_data == [paper_id |-> base_id, title |-> additional_data.title,
                          abstract |-> o[Head(ids)] # "noabstract",
                          sections |-> FALSE, keywords |-> FALSE,
                          domain |-> FALSE, summary |-> FALSE]
           valid == /\ base_id \in files
                    /\ result_title # ""
                    /\ additional_data.authors
           events == (IF additional_data.warning
                      THEN <<Event("warning", base_id, 0, 0)>> ELSE <<>>)
                     \o <<Event("metadata", base_id, additional_data.failed,
                                IF valid THEN 1 ELSE 0)>>
       IN fetch_metadata(Tail(ids), o, files,
            IF additional_data.raised
            THEN [acc EXCEPT !.raised = TRUE,
                             !.events = acc.events \o events]
            ELSE IF ~valid
            THEN [acc EXCEPT !.events = acc.events \o events]
            ELSE [papers |-> Append(acc.papers, paper_data),
                  valid_ids |-> Append(acc.valid_ids, base_id),
                  events |-> acc.events \o events,
                  raised |-> FALSE])

\* IngestionPipeline.process_files
process_files(ids, files) == SeqFilter(ids, files)

\* IngestionPipeline.parse_papers with PaperParser.parse_tex
RECURSIVE parse_papers(_, _)
parse_papers(ps, o) ==
  IF ps = <<>> THEN <<>>
  ELSE LET paper == Head(ps)
           paper_data == [paper EXCEPT !.sections = (o[paper.paper_id] # "nosections")]
       IN IF paper_data.sections
          THEN <<paper_data>> \o parse_papers(Tail(ps), o)
          ELSE parse_papers(Tail(ps), o)

PaperIds(ps) == [i \in 1..Len(ps) |-> ps[i].paper_id]

\* query_openrouter: max_retries = 5
llm_max_retries == 5

\* the three prompts of LLMProcessor's workflow, in the order of its graph
Steps == <<"keywords", "domain", "summary">>

\* what the LLM does with one prompt: it answers the JSON asked for, it
\* answers it at the last attempt, every attempt raises, or it answers text
\* that is not the JSON asked for
StepAnswers == {"ok", "retry", "exhausted", "garbage"}

\* attempts of query_openrouter that raise before one returns
LlmFails(answer) ==
  CASE answer = "retry"     -> llm_max_retries - 1
    [] answer = "exhausted" -> llm_max_retries
    [] OTHER                -> 0

\* query_openrouter: for attempt in range(max_retries), "" when all raise
RECURSIVE query_openrouter(_, _)
query_openrouter(answer, attempt) ==
  IF attempt >= llm_max_retries THEN ""
  ELSE IF LlmFails(answer) <= attempt
       THEN (IF answer = "garbage" THEN "garbage" ELSE "json")
       ELSE query_openrouter(answer, attempt + 1)

\* LLMProcessor.get_keywords: the keywords, [] without a dictionary or on
\* an exception (TRUE: a list that is not empty)
get_keywords(answer) == query_openrouter(answer, 0) = "json"

\* LLMProcessor.get_domain: the domain, None on an exception
get_domain(answer) == query_openrouter(answer, 0) = "json"

\* LLMProcessor.get_summary: the summary, None on an exception
get_summary(answer) == query_openrouter(answer, 0) = "json"

\* a node that got nothing keeps the nodes after it from running
run_agentic_worflow_chained(answers) ==
  LET keywords == get_keywords(answers["keywords"])
      domain   == keywords /\ get_domain(answers["domain"])
  IN [keywords |-> keywords,
      domain   |-> domain,
      summary  |-> domain /\ get_summary(answers["summary"])]

\* LLMProcessor.run_agentic_worflow: the three nodes in sequence
run_agentic_worflow(answers) ==
  [keywords |-> get_keywords(answers["keywords"]),
   domain   |-> get_domain(answers["domain"]),
   summary  |-> get_summary(answers["summary"])]

\* one iteration of the loop of enrich_paper_metadata
enrich_paper(paper, answers) ==
  IF paper.paper_id = None THEN paper
  ELSE IF paper.title = "" \/ ~paper.abstract THEN paper
  ELSE LET metadata == run_agentic_worflow(answers[Head(paper.paper_id)])
       IN [paper EXCEPT !.keywords = metadata.keywords,
                        !.domain   = metadata.domain,
                        !.summary  = metadata.summary]

\* the slice forgotten: every surviving entry is handled
Budgeted_unbounded(citations, k) == citations

\* citations[:max_extensions]
Budgeted(citations, k) == SubSeq(citations, 1, Min(k, Len(citations)))

\* process_cited_papers / process_citing_papers, the loop over one frontier
\* paper's budgeted citation list (lines 171-192 and 219-240)
RECURSIVE extend(_, _, _, _, _)
extend(citations, arxiv_id, ids, found, acc) ==
  IF citations = <<>> THEN acc
  ELSE LET citation == Head(citations)
           cited_arxiv_id == citation.arxivId
           title == citation.title
           accept(id) == [link |-> Put(acc.link, id, arxiv_id),
                          new |-> Append(acc.new, [paper_id |-> id, title |-> title])]
       IN extend(Tail(citations), arxiv_id, ids, found,
            IF cited_arxiv_id # None /\ ~InSeq(cited_arxiv_id, ids)
            THEN accept(cited_arxiv_id)
            ELSE IF title = "" THEN acc
            ELSE IF found[title] # None /\ ~InSeq(found[title], ids)
            THEN accept(found[title])
            ELSE acc)

\* the titles the loop hands to ArxivClient.search_by_title
SearchedTitles(citations, ids) ==
  {citations[i].title : i \in {j \in 1..Len(citations) :
      /\ InSeq(citations[j].arxivId, ids)
      /\ citations[j].title # ""}}

\* answers of ArxivClient.search_by_title, keeping the answers already given
SearchChoices(T) ==
  LET new == {t \in T : ~search[t].known}
  IN {[t \in Titles |-> IF search[t].known THEN search[t].id
                        ELSE IF t \in new THEN g[t] ELSE None] :
        g \in [new -> SearchResults]}

\* citations = [c for c in citations if c.get('arxivId') in self.paper_ids]
RECURSIVE SelectCitations(_, _)
SelectCitations(citations, ids) ==
  IF citations = <<>> THEN <<>>
  ELSE IF InSeq(Head(citations).arxivId, ids)
       THEN <<Head(citations)>> \o SelectCitations(Tail(citations), ids)
       ELSE SelectCitations(Tail(citations), ids)

ArxivIds(citations) == [i \in 1..Len(citations) |-> citations[i].arxivId]

\* the snapshot of the first query of a pass reused for the rest of the pass
gate_log_cached(l) ==
  IF \E i \in 1..Len(l) : /\ l[i].ev = "existing_ids"
                           /\ l[i].run = run
                           /\ l[i].phase = phase
  THEN l
  ELSE Append(l, Event("existing_ids", None, 0, 0))

\* the bulk existing-id query that deduplicate_papers sends to the sink
gate_log(l) == Append(l, Event("existing_ids", None, 0, 0))

\* an exception leaves run_pipeline: ProcessingWorkflow.run_single logs it
\* and returns
Raised(stage, l) == Append(l, Event("raised", <<stage>>, 0, 0))

\* the exception caught where it was raised: the run goes on at next
after_raise_swallowed(next) == next

\* where control is after an exception in the stage that would have led to
\* next: the except clause of run_single has returned
after_raise(next) == "idle"

\* the file opened for appending: what it held stays
save_papers_append(lines, file) == file \o lines

\* IngestionPipeline.save_papers: open(output_path, "w") empties the file,
\* then one line is written per element of self.papers
save_papers(lines, file) == lines

DownloadEvents(ids) == [i \in 1..Len(ids) |-> Event("download", ids[i], 0, 0)]

\* PaperTransformer.transform_papers: the paper rows of the input file
RECURSIVE transform_papers(_, _)
transform_papers(lines, acc) ==
  IF lines = <<>> THEN acc
  ELSE LET data == Head(lines)
           arxiv_id == IF "paper_id" \in DOMAIN data THEN SplitV(data.paper_id) ELSE None
       IN transform_papers(Tail(lines),
            IF "paper_id" \notin DOMAIN data THEN acc
            ELSE IF arxiv_id = None \/ arxiv_id \in acc.existing THEN acc
            ELSE [papers |-> Append(acc.papers, [input_paper_id |-> data.paper_id,
                                                 arxiv_id |-> arxiv_id]),
                  existing |-> acc.existing \cup {arxiv_id}])

\* PaperStorage.store_papers: the rows inserted into "papers"; the database
\* generates paper_id
store_papers(ps, rows) ==
  {[paper_id |-> Uuid(Len(BaseOrder) + Cardinality(rows) + i),
    arxiv_id |-> ps[i].arxiv_id] : i \in 1..Len(ps)}

\* CitationGraph.build_graph: the edges of the input file
build_graph(lines) ==
  UNION {{[source |-> cited_id, target |-> lines[i].citation_links[cited_id]] :
            cited_id \in DOMAIN lines[i].citation_links} :
         i \in {j \in 1..Len(lines) : "paper_id" \notin DOMAIN lines[j]
                                       /\ "citation_links" \in DOMAIN lines[j]}}

\* ------------------------------------------------------------ initial state
Unasked == [known |-> FALSE, list |-> <<>>]

InitialStore(S) ==
  {[paper_id |-> Uuid(i), arxiv_id |-> Bare(BaseOrder[i])] :
     i \in {j \in 1..Len(BaseOrder) : BaseOrder[j] \in S}}

\* the papers stored before the first run: the last n of BaseOrder, so that
\* a stored paper is a candidate before it is a seed
StoredSets ==
  {{BaseOrder[j] : j \in (Len(BaseOrder) - n + 1)..Len(BaseOrder)} :
     n \in 0..Min(MaxStored, Len(BaseOrder))}

\* the LLM answers every prompt
AllAnswered == [b \in Bases |-> [st \in Range(Steps) |-> "ok"]]

\* no collaborator has been asked anything
InitEnv ==
  /\ feed = Unasked
  /\ refs = [b \in Bases |-> Unasked]
  /\ cits = [b \in Bases |-> Unasked]
  /\ search = [t \in Titles |-> [known |-> FALSE, id |-> None]]
  /\ outcome = [i \in Ids |-> "unknown"]
  /\ llm = AllAnswered

\* no function is being called on its own
InitUnit ==
  /\ args = [fn |-> "none"]
  /\ result = [done |-> FALSE]

\* IngestionPipeline.__init__ and PaperTransformer.__init__
InitFields ==
  /\ paper_ids = <<>>
  /\ final_tex_files = {}
  /\ papers = <<>>
  /\ citation_link = EmptyDict
  /\ cited_paper_ids = <<>>
  /\ citing_paper_ids = <<>>
  /\ original_paper_ids = <<>>
  /\ extension = <<>>
  /\ saved_papers = <<>>
  /\ idx = 1
  /\ budget = 0
  /\ tempDirs = {}
  /\ outFile = <<>>
  /\ existing_paper_arxiv_ids = {r.arxiv_id : r \in store}
  /\ pc = "idle"
  /\ phase = "seed"
  /\ run = 0
  /\ log = <<>>

Init ==
  /\ query \in BOOLEAN
  /\ max_extensions \in (IF query THEN 0..MaxK ELSE {DefaultMaxExtensions})
  /\ runsLeft = (IF query THEN MaxRuns ELSE 1)
  /\ store \in {InitialStore(S) : S \in StoredSets}
  /\ InitEnv
  /\ InitFields
  /\ InitUnit

\* ------------------------------------------------------------------ actions
\* ArxivClient.search_papers strips the version; fetch_latest_papers keeps
\* the last path segment of the feed link as it is
FeedChoices ==
  IF feed.known THEN {feed.list}
  ELSE {[i \in 1..n |-> IF query \/ ~versioned THEN Bare(BaseOrder[i])
                        ELSE WithVersion(BaseOrder[i])] :
          n \in 0..Min(MaxSeeds, Len(BaseOrder)), versioned \in BOOLEAN}

\* ProcessingWorkflow.run_single up to IngestionPipeline.fetch_papers
FetchPapers ==
  /\ pc = "idle"
  /\ runsLeft > 0
  /\ \E ids \in FeedChoices :
       /\ feed' = [known |-> TRUE, list |-> ids]
       /\ paper_ids' = ids
  /\ runsLeft' = runsLeft - 1
  /\ run' = run + 1
  /\ budget' = IF query THEN max_extensions ELSE DefaultMaxExtentions
  /\ final_tex_files' = {}
  /\ papers' = <<>>
  /\ citation_link' = EmptyDict
  /\ phase' = "seed"
  /\ pc' = "dedup"
  /\ UNCHANGED unitVars
  /\ UNCHANGED <<query, max_extensions, refs, cits, search, outcome, llm, store,
                 cited_paper_ids, citing_paper_ids, original_paper_ids,
                 extension, saved_papers, idx, tempDirs, outFile,
                 existing_paper_arxiv_ids, log>>

\* run_pipeline: self.deduplicate_papers()
DeduplicatePapers ==
  /\ pc = "dedup"
  /\ \/ /\ paper_ids' = deduplicate_papers(paper_ids, store)
        /\ log' = gate_log(log)
        /\ pc' = "download"
     \/ /\ SinkMayFail
        /\ paper_ids' = paper_ids
        /\ log' = Raised("gate", log)
        /\ pc' = after_raise("download")
  /\ UNCHANGED unitVars
  /\ UNCHANGED <<driverVars, envVars, store, final_tex_files, papers,
                 citation_link, cited_paper_ids, citing_paper_ids, localVars,
                 tempDirs, outFile, existing_paper_arxiv_ids, phase, run>>

DownloadAndExtract ==
  /\ pc = "download"
  /\ \E o \in OutcomeChoices(paper_ids) :
       LET r == download_and_extract(paper_ids, o,
                  [valid_ids |-> <<>>, temps |-> tempDirs,
                   calls |-> <<>>, raised |-> FALSE])
       IN /\ outcome' = o
          /\ tempDirs' = r.temps
          /\ IF r.raised
             THEN /\ paper_ids' = paper_ids
                  /\ log' = Raised("download", log \o DownloadEvents(r.calls))
                  /\ pc' = after_raise("organize")
             ELSE /\ paper_ids' = r.valid_ids
                  /\ log' = log \o DownloadEvents(r.calls)
                  /\ pc' = "organize"
  /\ UNCHANGED unitVars
  /\ UNCHANGED <<driverVars, feed, refs, cits, search, llm, store, final_tex_files,
                 papers, citation_link, cited_paper_ids, citing_paper_ids,
                 localVars, outFile, existing_paper_arxiv_ids, phase, run>>

OrganizeFiles ==
  /\ pc = "organize"
  /\ LET r == organize_files(paper_ids, outcome,
                [valid_ids |-> <<>>, files |-> {}, temps |-> tempDirs])
     IN /\ final_tex_files' = r.files
        /\ paper_ids' = r.valid_ids
        /\ tempDirs' = r.temps
  /\ pc' = "metadata"
  /\ UNCHANGED unitVars
  /\ UNCHANGED <<driverVars, envVars, store, papers, citation_link,
                 cited_paper_ids, citing_paper_ids, localVars, outFile,
                 existing_paper_arxiv_ids, phase, run, log>>

FetchMetadata ==
  /\ pc = "metadata"
  /\ LET r == fetch_metadata(paper_ids, outcome, final_tex_files,
                [papers |-> papers, valid_ids |-> <<>>,
                 events |-> <<>>, raised |-> FALSE])
         l == Append(log, Event("fetch_metadata", None, Len(paper_ids), 0))
                \o r.events
     IN /\ papers' = r.papers
        /\ IF r.raised
           THEN /\ paper_ids' = paper_ids
                /\ log' = Raised("metadata", l)
                /\ pc' = after_raise("process")
           ELSE /\ paper_ids' = r.valid_ids
                /\ log' = l
                /\ pc' = "process"
  /\ UNCHANGED unitVars
  /\ UNCHANGED <<driverVars, envVars, store, final_tex_files, citation_link,
                 cited_paper_ids, citing_paper_ids, localVars, tempDirs,
                 outFile, existing_paper_arxiv_ids, phase, run>>

ProcessFiles ==
  /\ pc = "process"
  /\ paper_ids' = process_files(paper_ids, final_tex_files)
  /\ pc' = "parse"
  /\ UNCHANGED unitVars
  /\ UNCHANGED <<driverVars, envVars, store, final_tex_files, papers,
                 citation_link, cited_paper_ids, citing_paper_ids, localVars,
                 tempDirs, outFile, existing_paper_arxiv_ids, phase, run, log>>

ParsePapers ==
  /\ pc = "parse"
  /\ papers' = parse_papers(papers, outcome)
  /\ paper_ids' = PaperIds(papers')
  /\ pc' = IF phase = "seed" THEN "pass_begin" ELSE "pass_end"
  /\ phase' = IF phase = "seed" THEN "cited" ELSE phase
  /\ UNCHANGED unitVars
  /\ UNCHANGED <<driverVars, envVars, store, final_tex_files, citation_link,
                 cited_paper_ids, citing_paper_ids, localVars, tempDirs,
                 outFile, existing_paper_arxiv_ids, run, log>>

\* process_cited_papers / process_citing_papers, lines 161-162 and 209-210
PassBegin ==
  /\ pc = "pass_begin"
  /\ extension' = <<>>
  /\ original_paper_ids' = paper_ids
  /\ idx' = 1
  /\ log' = Append(log, Event("pass", None, Len(papers), 0))
  /\ pc' = "expand"
  /\ UNCHANGED unitVars
  /\ UNCHANGED <<driverVars, envVars, store, fieldVars, saved_papers, budget,
                 tempDirs, outFile, existing_paper_arxiv_ids, phase, run>>

\* one iteration of "for paper in self.papers" (lines 164-192 and 212-240):
\* SemanticScholarClient.get_cited_papers / get_citing_papers, the gate,
\* the budgeted loop over the surviving entries
ExpandPaper ==
  /\ pc = "expand"
  /\ idx <= Len(papers)
  /\ LET paper    == papers[idx]
         arxiv_id == paper.paper_id
         b        == Head(arxiv_id)
         memo     == IF phase = "cited" THEN refs[b] ELSE cits[b]
     IN \E answer \in CiteLists(memo) :
          LET gated     == deduplicate_papers(ArxivIds(answer), store)
              citations == SelectCitations(answer, gated)
              slice     == Budgeted(citations, budget)
              T         == SearchedTitles(slice, original_paper_ids)
          IN \E found \in SearchChoices(T) :
               LET r == extend(slice, arxiv_id, original_paper_ids, found,
                               [link |-> citation_link, new |-> extension])
               IN /\ citation_link' = r.link
                  /\ extension' = r.new
                  /\ search' = [t \in Titles |->
                                  IF t \in T THEN [known |-> TRUE, id |-> found[t]]
                                  ELSE search[t]]
                  /\ refs' = IF phase = "cited"
                             THEN [refs EXCEPT ![b] = [known |-> TRUE, list |-> answer]]
                             ELSE refs
                  /\ cits' = IF phase = "cited" THEN cits
                             ELSE [cits EXCEPT ![b] = [known |-> TRUE, list |-> answer]]
                  /\ log' = Append(gate_log(log),
                                   Event("expand", arxiv_id, Len(answer),
                                         Len(r.new) - Len(extension)))
  /\ paper_ids' = original_paper_ids
  /\ idx' = idx + 1
  /\ UNCHANGED unitVars
  /\ UNCHANGED <<driverVars, feed, outcome, llm, store, final_tex_files, papers,
                 cited_paper_ids, citing_paper_ids, original_paper_ids,
                 saved_papers, budget, tempDirs, outFile,
                 existing_paper_arxiv_ids, pc, phase, run>>

\* the same iteration when the query of deduplicate_papers (line 168 / 216)
\* raises: self.paper_ids holds the ids of the citation list
ExpandPaperGateRaises ==
  /\ pc = "expand"
  /\ idx <= Len(papers)
  /\ SinkMayFail
  /\ LET b    == Head(papers[idx].paper_id)
         memo == IF phase = "cited" THEN refs[b] ELSE cits[b]
     IN \E answer \in CiteLists(memo) :
          /\ memo.known \/ EnvUsed + Len(answer) < MaxEnv
          /\ refs' = IF phase = "cited"
                     THEN [refs EXCEPT ![b] = [known |-> TRUE, list |-> answer]]
                     ELSE refs
          /\ cits' = IF phase = "cited" THEN cits
                     ELSE [cits EXCEPT ![b] = [known |-> TRUE, list |-> answer]]
          /\ paper_ids' = ArxivIds(answer)
  /\ log' = Raised("gate", log)
  /\ pc' = after_raise("expand")
  /\ UNCHANGED unitVars
  /\ UNCHANGED <<driverVars, feed, search, outcome, llm, store, final_tex_files,
                 papers, citation_link, cited_paper_ids, citing_paper_ids,
                 localVars, tempDirs, outFile, existing_paper_arxiv_ids,
                 phase, run>>

\* lines 193-196 and 241-244
PassFetch ==
  /\ pc = "expand"
  /\ idx > Len(papers)
  /\ saved_papers' = papers
  /\ papers' = <<>>
  /\ IF extension # <<>>
     THEN /\ paper_ids' = PaperIds(extension)
          /\ pc' = "download"
     ELSE /\ paper_ids' = paper_ids
          /\ pc' = "pass_end"
  /\ UNCHANGED unitVars
  /\ UNCHANGED <<driverVars, envVars, store, final_tex_files, citation_link,
                 cited_paper_ids, citing_paper_ids, original_paper_ids,
                 extension, idx, budget, tempDirs, outFile,
                 existing_paper_arxiv_ids, phase, run, log>>

\* lines 202-205 and 250-253
PassEnd ==
  /\ pc = "pass_end"
  /\ cited_paper_ids' = IF phase = "cited" THEN paper_ids ELSE cited_paper_ids
  /\ citing_paper_ids' = IF phase = "citing" THEN paper_ids ELSE citing_paper_ids
  /\ paper_ids' = original_paper_ids
  /\ papers' = saved_papers \o papers
  /\ pc' = IF phase = "cited" THEN "pass_begin" ELSE "enrich"
  /\ phase' = "citing"
  /\ UNCHANGED unitVars
  /\ UNCHANGED <<driverVars, envVars, store, final_tex_files, citation_link,
                 localVars, tempDirs, outFile, existing_paper_arxiv_ids, run, log>>

\* IngestionPipeline.enrich_paper_metadata
EnrichPaperMetadata ==
  /\ pc = "enrich"
  /\ papers' = [i \in 1..Len(papers) |-> enrich_paper(papers[i], llm)]
  /\ pc' = "save"
  /\ UNCHANGED unitVars
  /\ UNCHANGED <<driverVars, envVars, store, paper_ids, final_tex_files,
                 citation_link, cited_paper_ids, citing_paper_ids, localVars,
                 tempDirs, outFile, existing_paper_arxiv_ids, phase, run, log>>

\* run_pipeline lines 339-341: the citation_links record, save_papers,
\* delete_latex
SavePapers ==
  /\ pc = "save"
  /\ papers' = Append(papers, [citation_links |-> citation_link])
  /\ outFile' = save_papers(papers', outFile)
  /\ tempDirs' = {}
  /\ log' = log \o [i \in 1..Len(papers) |-> Event("saved", papers[i].paper_id, 0, 0)]
  /\ pc' = "transform"
  /\ UNCHANGED unitVars
  /\ UNCHANGED <<driverVars, envVars, store, paper_ids, final_tex_files,
                 citation_link, cited_paper_ids, citing_paper_ids, localVars,
                 existing_paper_arxiv_ids, phase, run>>

\* TransformationPipeline.run_pipeline: transform_papers and store_papers
TransformAndStore ==
  /\ pc = "transform"
  /\ LET t == transform_papers(outFile, [papers |-> <<>>,
                                          existing |-> existing_paper_arxiv_ids])
     IN /\ existing_paper_arxiv_ids' = t.existing
        /\ store' = store \cup store_papers(t.papers, store)
  /\ pc' = "idle"
  /\ UNCHANGED unitVars
  /\ UNCHANGED <<driverVars, envVars, fieldVars, localVars, tempDirs, outFile,
                 phase, run, log>>

Next ==
  \/ FetchPapers
  \/ DeduplicatePapers
  \/ DownloadAndExtract
  \/ OrganizeFiles
  \/ FetchMetadata
  \/ ProcessFiles
  \/ ParsePapers
  \/ PassBegin
  \/ ExpandPaper
  \/ ExpandPaperGateRaises
  \/ PassFetch
  \/ PassEnd
  \/ EnrichPaperMetadata
  \/ SavePapers
  \/ TransformAndStore

Spec == Init /\ [][Next]_vars

\* One seed a whose three references b, c, d the provider returns in any
\* order; d is in the store, every download and every parse succeeds, and
\* the driver is called with a query and max_extensions = 2
InitScenario ==
  /\ query = TRUE
  /\ max_extensions = 2
  /\ runsLeft = 1
  /\ store = {[paper_id |-> Uuid(1), arxiv_id |-> Bare("d")]}
  /\ feed = [known |-> TRUE, list |-> <<Bare("a")>>]
  /\ \E order \in {s \in DistinctSeqs({"b", "c", "d"}, 3) : Len(s) = 3} :
       refs = [b \in Bases |-> IF b = "a"
                               THEN [known |-> TRUE, list |-> EntryList(order)]
                               ELSE Unasked]
  /\ cits = [b \in Bases |-> Unasked]
  /\ search = [t \in Titles |-> [known |-> FALSE, id |-> None]]
  /\ outcome = [i \in Ids |-> IF Len(i) = 1 THEN "ok" ELSE "unknown"]
  /\ llm = AllAnswered
  /\ InitFields
  /\ InitUnit

SpecScenario == InitScenario /\ [][Next]_vars

\* The feed returns the first MaxSeeds papers of the catalogue, which have
\* no citation in either direction and download and parse well; the LLM
\* answers each of the three prompts about each of them in any of the ways
\* of StepAnswers
EnrichedPapers == {BaseOrder[i] : i \in 1..Min(MaxSeeds, Len(BaseOrder))}

InitEnrich ==
  /\ query = FALSE
  /\ max_extensions = DefaultMaxExtensions
  /\ runsLeft = 1
  /\ store = {}
  /\ feed = [known |-> TRUE,
             list |-> [i \in 1..Min(MaxSeeds, Len(BaseOrder)) |-> Bare(BaseOrder[i])]]
  /\ refs = [b \in Bases |-> IF b \in EnrichedPapers
                              THEN [known |-> TRUE, list |-> <<>>] ELSE Unasked]
  /\ cits = [b \in Bases |-> IF b \in EnrichedPapers
                              THEN [known |-> TRUE, list |-> <<>>] ELSE Unasked]
  /\ search = [t \in Titles |-> [known |-> FALSE, id |-> None]]
  /\ outcome = [i \in Ids |-> IF Len(i) = 1 /\ Head(i) \in EnrichedPapers
                               THEN "ok" ELSE "unknown"]
  /\ llm \in {[b \in Bases |-> IF b \in EnrichedPapers THEN f[b] ELSE AllAnswered[b]] :
               f \in [EnrichedPapers -> [Range(Steps) -> StepAnswers]]}
  /\ InitFields
  /\ InitUnit

SpecEnrich == InitEnrich /\ [][Next]_vars

\* ------------------------------------------- functions called on their own
\* the pipeline at rest: constructed, no run started and none to start
InitAtRest ==
  /\ query = FALSE
  /\ max_extensions = DefaultMaxExtensions
  /\ runsLeft = 0
  /\ store = {}
  /\ InitEnv
  /\ InitFields

pipelineVars == <<driverVars, envVars, store, fieldVars, localVars, tempDirs,
                  outFile, existing_paper_arxiv_ids, pc, phase, run, log>>

\* the characters of an identifier: a digit or letter, the letter v, a dot
IdChars == {"a", "v", "1", "."}

\* the strings handed to split('v')[0]: version-suffixed ids, bare ids, and
\* every other string of these characters
RawIds == UNION {[1..n -> IdChars] : n \in 0..MaxIdLen}

InitStrip ==
  /\ InitAtRest
  /\ args \in {[fn |-> "strip", raw_id |-> x] : x \in RawIds}
  /\ result = [done |-> FALSE]

\* pid.split("v")[0] applied to an identifier, then to what it returned
StripVersion ==
  /\ args.fn = "strip"
  /\ IF result.done THEN result.n < 2 ELSE TRUE
  /\ LET previous == IF result.done THEN result.stripped ELSE args.raw_id
     IN result' = [done |-> TRUE,
                   n |-> IF result.done THEN result.n + 1 ELSE 1,
                   previous |-> previous,
                   stripped |-> SplitV(previous)]
  /\ UNCHANGED <<pipelineVars, args>>

NextStrip == StripVersion

SpecStrip == InitStrip /\ [][NextStrip]_vars

\* a citation file: its extension, whether it is there and can be read and
\* parsed, and the entries it holds that make a citation (for a .bib file,
\* the entries with a title)
CitationFiles ==
  {[ext |-> e, state |-> st, entries |-> n] :
     e \in {"bib", "bbl"}, st \in {"missing", "unreadable"}, n \in {0}}
  \cup {[ext |-> e, state |-> "ok", entries |-> n] :
          e \in {"bib", "bbl"}, n \in 0..MaxBibEntries}

\* the citations one tier takes from the files of its extension, in the
\* order of the files; a file that is missing or raises yields nothing
RECURSIVE TierEntries(_, _, _, _)
TierEntries(citation_files, ext, tier, i) ==
  IF i > Len(citation_files) THEN <<>>
  ELSE LET f == citation_files[i]
           n == IF f.ext = ext /\ f.state = "ok" THEN f.entries ELSE 0
       IN [k \in 1..n |-> [tier |-> tier, file |-> i, entry |-> k]]
          \o TierEntries(citation_files, ext, tier, i + 1)

\* the bibitems with a title of the thebibliography environment of the text
InlineEntries(tex_content) ==
  [k \in 1..tex_content |-> [tier |-> 3, file |-> 0, entry |-> k]]

\* every tier run and its entries added to the list
extract_citations_merged(tex_content, citation_files) ==
  [citations |-> TierEntries(citation_files, "bib", 1, 1)
                 \o TierEntries(citation_files, "bbl", 2, 1)
                 \o InlineEntries(tex_content),
   tried |-> <<1, 2, 3>>]

\* PaperParser._extract_citations: the .bib files, then "if not citations"
\* the .bbl files, then "if not citations" the environment of the text;
\* tried: the tiers whose block was entered
extract_citations(tex_content, citation_files) ==
  LET bib == TierEntries(citation_files, "bib", 1, 1)
      bbl == IF bib = <<>> THEN TierEntries(citation_files, "bbl", 2, 1) ELSE bib
      all == IF bbl = <<>> THEN InlineEntries(tex_content) ELSE bbl
  IN [citations |-> all,
      tried |-> <<1>> \o (IF bib = <<>> THEN <<2>> ELSE <<>>)
                     \o (IF bbl = <<>> THEN <<3>> ELSE <<>>)]

InitParser ==
  /\ InitAtRest
  /\ args \in {[fn |-> "_extract_citations", tex_content |-> n, citation_files |-> fs] :
               n \in 0..MaxBibEntries,
               fs \in UNION {[1..k -> CitationFiles] : k \in 0..MaxFiles}}
  /\ result = [done |-> FALSE]

ExtractCitations ==
  /\ args.fn = "_extract_citations"
  /\ ~result.done
  /\ LET r == extract_citations(args.tex_content, args.citation_files)
     IN result' = [done |-> TRUE, citations |-> r.citations, tried |-> r.tried]
  /\ UNCHANGED <<pipelineVars, args>>

NextParser == ExtractCitations

SpecParser == InitParser /\ [][NextParser]_vars

\* ------------------------------------------------------------------ claims
IsPaper(line) == "paper_id" \in DOMAIN line

PaperLines(f) == {i \in 1..Len(f) : IsPaper(f[i])}

\* an exception left run r in one of the phases phs
RaisedIn(r, phs) ==
  \E i \in 1..Len(log) :
    log[i].ev = "raised" /\ log[i].run = r /\ log[i].phase \in phs

\* the output file holds the output of the current run
RunOver ==
  /\ run >= 1
  /\ pc \in {"transform", "idle"}
  /\ ~RaisedIn(run, {"seed", "cited", "citing"})

Events(e, r, ph) ==
  {i \in 1..Len(log) : log[i].ev = e /\ log[i].run = r /\ log[i].phase = ph}

Passes == {"cited", "citing"}

\* the pass ph of run r has returned
PassDone(r, ph) ==
  /\ r >= 1
  /\ ~RaisedIn(r, IF ph = "cited" THEN {"seed", "cited"}
                  ELSE {"seed", "cited", "citing"})
  /\ \/ r < run
     \/ r = run /\ ph = "cited" /\ phase = "citing"
     \/ r = run /\ ph = "citing" /\ pc \in {"enrich", "save", "transform", "idle"}

\* the canonical ids of the papers the relational store holds
StoredCanonicalIds == {SplitV(r.arxiv_id) : r \in store}

\* C1: after a run, no two paper records of the output paper set have the
\* same paper_id
C1_NoDuplicatePaperId ==
  RunOver =>
    \A i, j \in PaperLines(outFile) :
      i < j => outFile[i].paper_id # outFile[j].paper_id

\* C2: within one expansion pass each candidate id is downloaded at most once
C2_DownloadedOncePerPass ==
  \A r \in 1..run : \A ph \in Passes :
    \A i, j \in Events("download", r, ph) :
      i < j => log[i].id # log[j].id

C4_NoStoredIdFetched ==
  pc # "idle" =>
    \A ph \in Passes : \A i \in Events("download", run, ph) :
      SplitV(log[i].id) \notin StoredCanonicalIds

\* C5: in the second of two runs over the same seeds and citation data, the
\* gate's query returns the ids of the papers the first run stored, and the
\* second run admits no paper
C5_SecondRunAdmitsNothing ==
  /\ (run = 2 /\ pc = "download" /\ phase = "seed") =>
       \A i \in Events("saved", 1, "citing") :
         log[i].id \in get_existing_arxiv_ids(store)
  /\ (run = 2 /\ RunOver) => PaperLines(outFile) = {}

\* C6: one expansion pass adds at most max_extensions entries to the edge
\* map on behalf of one frontier paper
C6_BudgetRespected ==
  \A i \in 1..Len(log) : log[i].ev = "expand" => log[i].added <= budget

\* a frontier paper whose citation list is longer than the budget used it up
C6_Witness ==
  \E i \in 1..Len(log) :
    /\ log[i].ev = "expand"
    /\ budget >= 1
    /\ log[i].n > budget
    /\ log[i].added = budget

\* C7: seed a has the references b, c and d in some order, d is stored, the
\* budget is 2 and b and c pass validation: the backward pass downloads
\* exactly b and c, d is excluded at the gate, and the edge map links a to b
\* and to c and to nothing else
C7_ScenarioTwoNewOneStored ==
  (run = 1 /\ pc = "pass_begin" /\ phase = "citing") =>
    /\ {log[i].id : i \in Events("download", 1, "cited")} = {Bare("b"), Bare("c")}
    /\ Cardinality(Events("download", 1, "cited")) = 2
    /\ DOMAIN citation_link = {Bare("b"), Bare("c")}
    /\ \A k \in DOMAIN citation_link : citation_link[k] = Bare("a")
    /\ Range(PaperIds(papers)) = {Bare("a"), Bare("b"), Bare("c")}

\* C8: after a run every neighbour id of the edge map is the id of a paper
\* of the output paper set
C8_EdgeNeighboursArePapers ==
  RunOver =>
    \A i \in 1..Len(outFile) :
      ~IsPaper(outFile[i]) =>
        \A k \in DOMAIN outFile[i].citation_links :
          \E j \in PaperLines(outFile) : outFile[j].paper_id = k

\* the provider's data say that paper s cites paper t
Cites(s, t) ==
  LET sb == SplitV(s)
      tb == SplitV(t)
  IN /\ sb # None
     /\ tb # None
     /\ \/ /\ refs[Head(sb)].known
           /\ InSeq(tb, ArxivIds(refs[Head(sb)].list))
        \/ /\ cits[Head(tb)].known
           /\ InSeq(sb, ArxivIds(cits[Head(tb)].list))

\* C9: every edge that build_graph makes of the edge map has the citing
\* paper as source and the cited paper as target
C9_SourceCitesTarget ==
  RunOver => \A e \in build_graph(outFile) : Cites(e.source, e.target)

\* C10: no entry of the edge map relates a paper to itself
C10_NoSelfEdge ==
  \A k \in DOMAIN citation_link : citation_link[k] # k

\* C11: every paper_id of the output paper set and every key and value of
\* the edge map is a version-stripped arXiv id (stripping it changes nothing)
C11_IdsVersionStripped ==
  /\ \A k \in DOMAIN citation_link :
       /\ SplitV(k) = k
       /\ SplitV(citation_link[k]) = citation_link[k]
  /\ RunOver => \A i \in PaperLines(outFile) :
                  SplitV(outFile[i].paper_id) = outFile[i].paper_id

\* C12: split('v')[0] applied to what split('v')[0] returned gives the same
\* identifier, for every version-suffixed or bare identifier
C12_StripIdempotent ==
  (args.fn = "strip" /\ result.done /\ result.n = 2) =>
    result.stripped = result.previous

\* a version-suffixed identifier stripped twice
C12_Witness ==
  /\ args.fn = "strip"
  /\ args.raw_id = <<"a", "v", "1">>
  /\ result.done
  /\ result.n = 2
  /\ result.previous = <<"a">>
  /\ result.stripped = <<"a">>

\* C13: every paper record of the output file has sections, a title and an
\* abstract that are not empty
C13_SavedPapersAreValid ==
  RunOver =>
    \A i \in PaperLines(outFile) :
      /\ outFile[i].sections
      /\ outFile[i].title # ""
      /\ outFile[i].abstract

\* C14: when every attempt of the provider's request for a paper has failed,
\* get_paper_metadata returns empty data without raising, the paper is not
\* admitted, and fetch_metadata goes on through the rest of its list
C14_ExhaustedRetriesDropPaper ==
  \A i \in 1..Len(log) :
    (log[i].ev = "metadata" /\ log[i].n = max_retries) =>
      /\ log[i].added = 0
      /\ ~\E j \in 1..Len(log) : /\ log[j].ev = "raised"
                                  /\ log[j].id = <<"metadata">>
      /\ \A p \in Events("fetch_metadata", log[i].run, log[i].phase) :
           Cardinality(Events("metadata", log[i].run, log[i].phase)) = log[p].n

\* a paper whose request failed five times is dropped and the paper after it
\* in the same list is admitted
C14_Witness ==
  \E i, j \in 1..Len(log) :
    /\ i < j
    /\ log[i].ev = "metadata" /\ log[j].ev = "metadata"
    /\ log[i].run = log[j].run /\ log[i].phase = log[j].phase
    /\ log[i].n = max_retries /\ log[i].added = 0
    /\ log[j].n = 0 /\ log[j].added = 1
    /\ \E k \in 1..Len(papers) : papers[k].paper_id = log[j].id
    /\ ~\E k \in 1..Len(papers) : papers[k].paper_id = log[i].id

\* C15: no exception raised by the download, the metadata request, the
\* citation-list request or the title search leaves run_pipeline
C15_RemoteErrorsNeverPropagate ==
  \A i \in 1..Len(log) :
    log[i].ev = "raised" =>
      log[i].id \notin {<<"download">>, <<"metadata">>, <<"citations">>, <<"search">>}

\* the provider's answers with every differing title replaced by the
\* matching one
MatchingTitles == [i \in Ids |-> IF outcome[i] = "titlediff" THEN "ok" ELSE outcome[i]]

\* the ids of a list whose provider title differs from the arXiv title
Mismatched(ids) == {SplitV(ids[i]) : i \in {j \in 1..Len(ids) : outcome[ids[j]] = "titlediff"}}

\* C16: when fetch_metadata is about to run, what it does with the
\* provider's answers is what it would do if every differing title matched:
\* the same papers are admitted with the same fields (the title apart, which
\* is the provider's), and a warning is logged for each differing title
C16_TitleMismatchOnlyWarns ==
  pc = "metadata" =>
    LET start == [papers |-> <<>>, valid_ids |-> <<>>, events |-> <<>>, raised |-> FALSE]
        got   == fetch_metadata(paper_ids, outcome, final_tex_files, start)
        same  == fetch_metadata(paper_ids, MatchingTitles, final_tex_files, start)
    IN /\ got.valid_ids = same.valid_ids
       /\ got.raised = same.raised
       /\ Len(got.papers) = Len(same.papers)
       /\ \A k \in 1..Len(got.papers) :
            [got.papers[k] EXCEPT !.title = same.papers[k].title] = same.papers[k]
       /\ \A id \in Mismatched(paper_ids) :
            \E e \in 1..Len(got.events) :
              got.events[e].ev = "warning" /\ got.events[e].id = id

\* a paper whose provider title differs has been admitted with a warning
C16_Witness ==
  /\ pc = "process"
  /\ \E w, m \in 1..Len(log) :
       /\ m = w + 1
       /\ log[w].ev = "warning" /\ log[m].ev = "metadata"
       /\ log[w].id = log[m].id
       /\ log[w].run = run /\ log[w].phase = phase
       /\ log[m].added = 1
       /\ \E k \in 1..Len(papers) :
            papers[k].paper_id = log[m].id /\ papers[k].title = "x"

\* what tier t yields from the arguments of the call
TierYield(t) ==
  CASE t = 1 -> TierEntries(args.citation_files, "bib", 1, 1)
    [] t = 2 -> TierEntries(args.citation_files, "bbl", 2, 1)
    [] t = 3 -> InlineEntries(args.tex_content)

\* C17: _extract_citations tries the tiers in the order .bib, .bbl, inline;
\* the first tier that yields a citation gives the whole result, no later
\* tier is tried and no entry of a later tier is in the result
C17_FirstYieldingTierWins ==
  (args.fn = "_extract_citations" /\ result.done) =>
    LET yielding == {t \in 1..3 : TierYield(t) # <<>>}
    IN IF yielding = {}
       THEN result.citations = <<>> /\ result.tried = <<1, 2, 3>>
       ELSE LET first == CHOOSE t \in yielding : \A u \in yielding : t <= u
            IN /\ result.citations = TierYield(first)
               /\ result.tried = [i \in 1..first |-> i]
               /\ \A k \in 1..Len(result.citations) :
                    result.citations[k].tier = first

\* the .bib tier yields nothing, the .bbl tier yields 5 entries, the text has
\* a bibliography of its own: the result is the 5 entries and tier 3 is not run
C17_Witness ==
  /\ args.fn = "_extract_citations"
  /\ result.done
  /\ TierYield(1) = <<>>
  /\ Len(TierYield(2)) = 5
  /\ TierYield(3) # <<>>
  /\ \E i \in 1..Len(args.citation_files) : args.citation_files[i].ext = "bib"
  /\ Len(result.citations) = 5
  /\ \A k \in 1..5 : result.citations[k].tier = 2
  /\ result.tried = <<1, 2>>

\* the LLM gave the JSON asked for to the prompt st about paper b
Answered(b, st) == llm[b][st] \in {"ok", "retry"}

\* C18: enrich_paper_metadata keeps every paper, and sets each of keywords,
\* domain and summary of a paper exactly when the LLM answered that prompt,
\* whatever happened to the other two prompts and to the papers before it
C18_StepFailuresAreIsolated ==
  [][pc = "enrich" =>
       /\ Len(papers') = Len(papers)
       /\ \A i \in 1..Len(papers) :
            LET b == Head(papers[i].paper_id)
            IN papers'[i] =
                 IF papers[i].title = "" \/ ~papers[i].abstract THEN papers[i]
                 ELSE [papers[i] EXCEPT !.keywords = Answered(b, "keywords"),
                                        !.domain   = Answered(b, "domain"),
                                        !.summary  = Answered(b, "summary")]]_vars

\* enrichment is over: the retries of one prompt about the first paper were
\* exhausted, that field alone is empty, and the second paper has all three
C18_Witness ==
  /\ pc = "save"
  /\ Len(papers) = 2
  /\ \E st \in Range(Steps) :
       LET b == Head(papers[1].paper_id)
       IN /\ llm[b][st] = "exhausted"
          /\ \A u \in Range(Steps) \ {st} : llm[b][u] \in {"ok", "retry"}
          /\ papers[1].keywords = (st # "keywords")
          /\ papers[1].domain = (st # "domain")
          /\ papers[1].summary = (st # "summary")
  /\ papers[2].keywords /\ papers[2].domain /\ papers[2].summary

\* the lines of the output file that are records of the paper id, in
\* whatever version
LinesOf(id) ==
  {i \in 1..Len(outFile) : /\ "paper_id" \in DOMAIN outFile[i]
                            /\ SplitV(outFile[i].paper_id) = SplitV(id)}

\* C19: once run_pipeline has returned, the output file is the paper list of
\* the pipeline object: every line but the last is a paper record, the last
\* line is the citation_links record holding the edge map of this run, and
\* every paper record and every neighbour of the edge map comes from a
\* download of this run, a paper being there no more often than this run
\* downloaded it (in whatever version)
C19_FileIsPapersThenEdgeMap ==
  RunOver =>
    LET n == Len(outFile)
        Downloads(id) == {i \in 1..Len(log) : /\ log[i].ev = "download"
                                               /\ log[i].run = run
                                               /\ SplitV(log[i].id) = SplitV(id)}
    IN /\ n >= 1
       /\ outFile = papers
       /\ outFile[n] = [citation_links |-> citation_link]
       /\ \A i \in 1..(n - 1) :
            /\ "paper_id" \in DOMAIN outFile[i]
            /\ Cardinality(LinesOf(outFile[i].paper_id))
                 <= Cardinality(Downloads(outFile[i].paper_id))
       /\ \A k \in DOMAIN citation_link : Downloads(k) # {}

\* the second run on the same object has written its file, two papers and
\* an edge between them, after the first run had saved papers of its own
C19_Witness ==
  /\ run = 2
  /\ pc = "transform"
  /\ Len(outFile) = 3
  /\ DOMAIN citation_link # {}
  /\ \E i \in 1..Len(log) : log[i].ev = "saved" /\ log[i].run = 1

\* the bulk existing-id query has raised in the run r
GateDown(r) ==
  \E i \in 1..Len(log) :
    log[i].ev = "raised" /\ log[i].id = <<"gate">> /\ log[i].run = r

\* C20: the step in which get_existing_arxiv_ids raises ends the run and
\* writes neither the output file nor the store, and nothing at all happens
\* afterwards until the next run begins
C20_SinkOutageAbortsRun ==
  [][/\ (~GateDown(run) /\ GateDown(run)') =>
          /\ pc' = "idle"
          /\ UNCHANGED <<outFile, store, existing_paper_arxiv_ids>>
     /\ GateDown(run) => run' # run]_vars

\* the second run was aborted by the sink in its backward pass, after its
\* seed was parsed; the file is still the one the first run wrote
C20_Witness ==
  /\ run = 2
  /\ pc = "idle"
  /\ \E i \in 1..Len(log) :
       /\ log[i].ev = "raised" /\ log[i].id = <<"gate">>
       /\ log[i].run = 2 /\ log[i].phase = "cited"
  /\ Len(papers) >= 1
  /\ Len(outFile) >= 2
  /\ \A i \in 1..Len(log) : log[i].ev = "saved" => log[i].run = 1

\* run_single has returned to run_processing_task: its try body and its
\* except clause both end in a plain return
Returned == run >= 1 /\ pc = "idle"

\* what the scheduler records for run_processing_task: the task fails only
\* if an exception leaves it, and none leaves run_single
task_state == IF Returned THEN "Completed" ELSE "Running"

\* C21: a run out of which an exception unwound is recorded as failed by
\* the scheduler
C21_FailedRunIsRecordedFailed ==
  (Returned /\ RaisedIn(run, {"seed", "cited", "citing"})) => task_state = "Failed"

\* C22: every download of a paper comes after the metadata check of that
\* paper in the same stage of the same run, and that check accepted it
C22_MetadataCheckedBeforeDownload ==
  \A i \in 1..Len(log) :
    log[i].ev = "download" =>
      \E j \in 1..(i - 1) :
        /\ log[j].ev = "metadata"
        /\ log[j].added = 1
        /\ log[j].run = log[i].run
        /\ log[j].phase = log[i].phase
        /\ SplitV(log[j].id) = SplitV(log[i].id)

\* C23: the frontier of the forward pass is the frontier of the backward
\* pass, the seed papers: once both passes of a run have returned, the
\* forward pass has asked for as many citation lists as the backward pass,
\* and for none of a paper that only the backward pass brought in
C23_ForwardFrontierIsSeeds ==
  \A r \in 1..run :
    PassDone(r, "citing") =>
      /\ Cardinality(Events("expand", r, "citing"))
           = Cardinality(Events("expand", r, "cited"))
      /\ \A i \in Events("expand", r, "citing") :
           \E j \in Events("expand", r, "cited") : log[j].id = log[i].id

\* C24: within a run no step takes a relationship out of the edge map: a
\* neighbour recorded for one frontier paper stays recorded for that paper
\* when another frontier paper, or the other pass, accepts the same
\* neighbour
C24_RelationshipsAreKept ==
  [][run' = run =>
       \A k \in DOMAIN citation_link :
         /\ k \in DOMAIN citation_link'
         /\ citation_link'[k] = citation_link[k]]_vars

\* the papers admitted so far in the current run, whatever their version:
\* the seeds, the papers in the list and the candidates of the pass
AdmittedBases ==
  {SplitV(original_paper_ids[i]) : i \in 1..Len(original_paper_ids)}
    \cup {SplitV(papers[i].paper_id) : i \in 1..Len(papers)}
    \cup {SplitV(extension[i].paper_id) : i \in 1..Len(extension)}

\* C25: in the expansion of one frontier paper, a title search that returns
\* the id of a paper already admitted in this run adds no candidate and no
\* edge-map entry under that id
C25_SearchHitOnAdmittedIsDuplicate ==
  [][(pc = "expand" /\ pc' = "expand" /\ idx' = idx + 1) =>
       LET b         == Head(papers[idx].paper_id)
           answer    == IF phase = "cited" THEN refs'[b].list ELSE cits'[b].list
           gated     == deduplicate_papers(ArxivIds(answer), store)
           citations == SelectCitations(answer, gated)
           slice     == Budgeted(citations, budget)
       IN \A t \in SearchedTitles(slice, original_paper_ids) :
            LET id == search'[t].id
            IN (id # None /\ SplitV(id) \in AdmittedBases) =>
                 /\ \A i \in (Len(extension) + 1)..Len(extension') :
                      extension'[i].paper_id # id
                 /\ id \in DOMAIN citation_link' => id \in DOMAIN citation_link]_vars

\* C26: in the expansion of one frontier paper the title search is called
\* only for entries of its citation list that carry no id and have a title
C26_ResolverOnlyForEntriesWithoutId ==
  [][(pc = "expand" /\ pc' = "expand" /\ idx' = idx + 1) =>
       LET b      == Head(papers[idx].paper_id)
           answer == IF phase = "cited" THEN refs'[b].list ELSE cits'[b].list
       IN \A t \in Titles :
            (search'[t].known /\ ~search[t].known) =>
              \E i \in 1..Len(answer) : /\ answer[i].title = t
                                         /\ answer[i].title # ""
                                         /\ answer[i].arxivId = None]_vars

\* FileProcessor.organize_files for an archive with one .tex file: the
\* .bib and .bbl files found in it are listed under "citation_files"
file_info(archive) ==
  [tex_file_count |-> 1, citation_files |-> archive, dest |-> "main.tex"]

\* the record fetch_metadata builds for the paper: nothing of the file
\* information of organize_files goes into it
paper_data(arxiv_id, info) ==
  [paper_id |-> arxiv_id, title |-> "a", abstract |-> TRUE]

\* PaperParser.parse_tex lines 52-60: the citations of the last section,
\* with paper_data.get('citation_files', [])
parse_tex(tex_content, data) ==
  extract_citations(tex_content,
                    IF "citation_files" \in DOMAIN data THEN data.citation_files
                    ELSE <<>>).citations

\* the archives of a paper: files that are there, readable or not
ArchiveFiles == {f \in CitationFiles : f.state # "missing"}

InitParse ==
  /\ InitAtRest
  /\ args \in {[fn |-> "parse_papers", tex_content |-> n, citation_files |-> fs] :
               n \in 0..MaxBibEntries,
               fs \in UNION {[1..k -> ArchiveFiles] : k \in 0..MaxFiles}}
  /\ result = [done |-> FALSE]

\* organize_files, fetch_metadata and parse_papers for one paper
ParsePaper ==
  /\ args.fn = "parse_papers"
  /\ ~result.done
  /\ LET info == file_info(args.citation_files)
         data == paper_data(Bare("a"), info)
     IN result' = [done |-> TRUE, citations |-> parse_tex(args.tex_content, data)]
  /\ UNCHANGED <<pipelineVars, args>>

NextParse == ParsePaper

SpecParse == InitParse /\ [][NextParse]_vars

\* C27: the citations attached to a parsed paper are the entries of its
\* .bib files when these have any, and else the entries of its .bbl files
\* when these have any
C27_PipelineUsesBibliographyFiles ==
  (args.fn = "parse_papers" /\ result.done) =>
    /\ TierYield(1) # <<>> => result.citations = TierYield(1)
    /\ (TierYield(1) = <<>> /\ TierYield(2) # <<>>) => result.citations = TierYield(2)

\* C28: the budget that the expansion passes of a run apply is the
\* max_extensions that run_single was called with
C28_DriverBudgetReachesPasses ==
  (run >= 1 /\ pc # "idle") => budget = max_extensions

\* ------------------------------------------- TransformationPipeline alone
MaxLines == 3

\* transform_papers lines 55-58: every line with a paper_id goes into
\* data_json, before the test for papers that are stored already
data_json(lines) == SelectSeq(lines, LAMBDA data : "paper_id" \in DOMAIN data)

\* store_papers lines 61-62: paper_id_mapping[input_id] = the key the
\* database gave the inserted row, in the order of the rows
paper_id_mapping(ps) ==
  [id \in {ps[i].input_paper_id : i \in 1..Len(ps)} |->
     Uuid(CHOOSE i \in 1..Len(ps) :
            /\ ps[i].input_paper_id = id
            /\ \A j \in 1..Len(ps) : ps[j].input_paper_id = id => j <= i)]

\* EmbeddingGenerator.generate_embeddings: the keys of the lines whose
\* paper_id is in the mapping
RECURSIVE generate_embeddings(_, _)
generate_embeddings(lines, mapping) ==
  IF lines = <<>> THEN <<>>
  ELSE LET paper == Head(lines)
       IN (IF "paper_id" \in DOMAIN paper /\ paper.paper_id \in DOMAIN mapping
           THEN <<mapping[paper.paper_id]>> ELSE <<>>)
          \o generate_embeddings(Tail(lines), mapping)

\* the ids of the paper lines of an input file
FileIds == {Bare("a"), WithVersion("a"), Bare("b"), WithVersion("b")}

\* an input file: paper lines and the citation_links line
InputFiles ==
  {[i \in 1..(Len(ids) + 1) |->
      IF i <= Len(ids) THEN [paper_id |-> ids[i]]
      ELSE [citation_links |-> EmptyDict]] :
     ids \in UNION {[1..n -> FileIds] : n \in 0..MaxLines}}

InitTransform ==
  /\ InitAtRest
  /\ args \in {[fn |-> "run_pipeline", lines |-> f, existing |-> e] :
               f \in InputFiles, e \in SUBSET {Bare("a"), Bare("b")}}
  /\ result = [done |-> FALSE]

\* TransformationPipeline.run_pipeline lines 38-55, up to the call of
\* store_json
RunTransformation ==
  /\ args.fn = "run_pipeline"
  /\ ~result.done
  /\ LET t       == transform_papers(args.lines, [papers |-> <<>>,
                                                  existing |-> args.existing])
         mapping == paper_id_mapping(t.papers)
     IN result' = [done |-> TRUE,
                   reached |-> t.papers # <<>>,
                   mapping |-> mapping,
                   paper_ids |-> generate_embeddings(args.lines, mapping),
                   data_json |-> data_json(args.lines)]
  /\ UNCHANGED <<pipelineVars, args>>

NextTransform == RunTransformation

SpecTransform == InitTransform /\ [][NextTransform]_vars

\* C29: when store_json is reached, paper_ids and data_json have the same
\* length and paper_ids[i] is the key under which the paper of data_json[i]
\* was stored
C29_StoreJsonListsCorrespond ==
  (args.fn = "run_pipeline" /\ result.done /\ result.reached) =>
    /\ Len(result.paper_ids) = Len(result.data_json)
    /\ \A i \in 1..Len(result.data_json) :
         /\ result.data_json[i].paper_id \in DOMAIN result.mapping
         /\ result.paper_ids[i] = result.mapping[result.data_json[i].paper_id]

\* ------------------------------------- PaperStorage.store_papers, keywords
MaxKeywords == 3

\* lower-cased keyword names
KeywordNames == {"k1", "k2", "k3"}

\* the keyword_id of the record of the table "keywords" with that name
KeywordId(name) == <<"kw", name>>

\* store_papers lines 39-56 and 88-102: keywords is the list of distinct
\* keywords of the newly stored papers, in the order of the batch;
\* existing_names the names already in the table. The result is the
\* paper_keywords rows inserted, each with the keyword it stands for
store_keywords(keywords, existing_names) ==
  LET keys == keywords
      deduped_keywords == SelectSeq(keys, LAMBDA name : name \notin existing_names)
      keyword_ids == [i \in 1..Len(deduped_keywords) |-> KeywordId(deduped_keywords[i])]
      zipped == [name \in Range(keys) |->
                   LET i == CHOOSE j \in 1..Len(keys) : keys[j] = name
                   IN IF i <= Len(keyword_ids) THEN keyword_ids[i] ELSE None]
      keyword_keys == [name \in Range(keys) \cup existing_names |->
                         IF name \in existing_names THEN KeywordId(name)
                         ELSE zipped[name]]
  IN IF deduped_keywords = <<>> THEN {}
     ELSE {[keyword_key |-> k, keyword_id |-> keyword_keys[k]] :
             k \in {x \in Range(keys) : keyword_keys[x] # None}}

InitKeywords ==
  /\ InitAtRest
  /\ args \in {[fn |-> "store_papers", keywords |-> ks, existing |-> e] :
               ks \in DistinctSeqs(KeywordNames, MaxKeywords),
               e \in SUBSET KeywordNames}
  /\ result = [done |-> FALSE]

StoreKeywords ==
  /\ args.fn = "store_papers"
  /\ ~result.done
  /\ result' = [done |-> TRUE,
                paper_keywords |-> store_keywords(args.keywords, args.existing)]
  /\ UNCHANGED <<pipelineVars, args>>

NextKeywords == StoreKeywords

SpecKeywords == InitKeywords /\ [][NextKeywords]_vars

\* C30: every keyword of the newly stored papers gets a paper_keywords
\* row, and every row inserted references the keyword record of that name
C30_KeywordLinksMatchNames ==
  (args.fn = "store_papers" /\ result.done) =>
    /\ \A k \in Range(args.keywords) :
         \E l \in result.paper_keywords : l.keyword_key = k
    /\ \A l \in result.paper_keywords : l.keyword_id = KeywordId(l.keyword_key)

====
